---- MODULE Spec2Model ----
(***************************************************************************)
(* Model of the 46elks MCP server: the sliding-window rate limiter         *)
(* (src/src/index.ts 423-546) and the tool-call dispatcher                 *)
(* (src/src/index.ts 152-355) with the validators and the remote client.  *)
(* Strings are tuples of one-character strings, times are milliseconds.    *)
(***************************************************************************)
EXTENDS Integers, Sequences, FiniteSets, TLC

VARIABLES
  now,          \* Date.now()
  maxRequests,  \* config.maxRequests of each limiter, fixed at module load
  requests,     \* this.requests of each limiter
  origin,       \* whether this.requests was last emptied by the constructor or by reset()
  hist,         \* results of the check() calls of each limiter since it was last emptied
  op,           \* the most recent limiter call and what it returned or threw
  dryRun,       \* config.dryRun, fixed at module load
  cur,          \* the tool call being handled, or the last one handled
  handled,      \* number of tool calls the handler was invoked for
  sent,         \* Date.now() of each send-message request issued for send_sms
  audit,        \* the records auditLog has written to stderr
  auditIn,      \* the entry auditLog was called with for each record of audit
  startup,      \* how far main() has come, with the configuration it runs under
  val,          \* the most recent validator call: its input and its outcome
  inflight      \* the tool of each invocation suspended at its remote call

limiterVars == <<maxRequests, requests, origin, hist, op>>

dispatchVars == <<dryRun, cur, handled, sent, audit, auditIn, startup, val, inflight>>

vars == <<now, maxRequests, requests, origin, hist, op,
          dryRun, cur, handled, sent, audit, auditIn, startup, val, inflight>>

----------------------------------------------------------------------------
(* Bounds of the model *)

\* largest configured maxRequests explored (RATE_LIMIT_*_PER_MINUTE)
MaxRequests == 2

\* check() calls recorded, over both limiters, since they were last emptied
MaxChecks == 3

\* tool calls handled in one behaviour
MaxCalls == 2

\* audit records written in one behaviour
MaxAudit == 2

\* length of the strings from which validator inputs are enumerated
MaxLen == 3

\* invocations of the handler that can be in flight at once
MaxInFlight == 2

----------------------------------------------------------------------------
(* Rate limiter, src/src/index.ts 409-546 *)

\* windowMs: 60 * 1000 in SMS_RATE_LIMIT and QUERY_RATE_LIMIT
windowMs == 60000

\* value of Math.min() over no arguments, and of arithmetic on it
Infinity == 2147483647

\* retryAfterMs?: absent from the result of an allowed check
Undefined == -1

\* the two limiter instances
Limiters == {"smsRateLimiter", "queryRateLimiter"}

\* the tool names of the ListTools handler, and a name it does not list
Tools == {"send_sms", "get_sms_messages", "check_sms_status",
          "check_account_balance", "estimate_sms_cost",
          "get_delivery_statistics"}

ToolNames == Tools \cup {"unknown_tool"}

\* instants Date.now() takes in the model: pairs that are less than, exactly
\* and more than one window apart, over three consecutive minutes
Instants == {0, 1000, 59999, 60000, 61000, 119999}

\* a fixed-minute limiter: keeps the timestamps of the current minute only
Prune_fixedMinute(reqs, windowStart) ==
  SelectSeq(reqs, LAMBDA timestamp :
              timestamp \div windowMs = (windowStart + windowMs) \div windowMs)

\* a filter that also keeps the timestamp exactly one window old
Prune_keepsBoundary(reqs, windowStart) ==
  SelectSeq(reqs, LAMBDA timestamp : timestamp >= windowStart)

\* this.requests.filter(timestamp => timestamp > windowStart)
Prune(reqs, windowStart) == SelectSeq(reqs, LAMBDA timestamp : timestamp > windowStart)

RECURSIVE MathMin(_)
\* Math.min(...this.requests)
MathMin(reqs) ==
  IF reqs = <<>> THEN Infinity
  ELSE LET m == MathMin(Tail(reqs))
       IN IF Head(reqs) < m THEN Head(reqs) ELSE m

\* Math.max(0, x)
MathMax0(x) == IF x > 0 THEN x ELSE 0

\* a delay one second short of the expiry of the oldest timestamp
RetryAfterMs_early(kept, t) ==
  IF MathMin(kept) = Infinity THEN Infinity ELSE MathMin(kept) + windowMs - t - 1000

\* oldestInWindow + this.config.windowMs - now
RetryAfterMs(kept, t) ==
  IF MathMin(kept) = Infinity THEN Infinity ELSE MathMin(kept) + windowMs - t

\* check() comparing with > instead of >=
check_offByOne(reqs, max, t) ==
  LET windowStart == t - windowMs
      kept == Prune(reqs, windowStart)
  IN IF Len(kept) > max
     THEN [requests |-> kept,
           result |-> [allowed |-> FALSE, remaining |-> 0,
                       retryAfterMs |-> MathMax0(RetryAfterMs(kept, t))]]
     ELSE [requests |-> Append(kept, t),
           result |-> [allowed |-> TRUE, remaining |-> max - (Len(kept) + 1),
                       retryAfterMs |-> Undefined]]

\* check() appending to the list it had before pruning it
check_appendsUnpruned(reqs, max, t) ==
  LET windowStart == t - windowMs
      kept == Prune(reqs, windowStart)
  IN IF Len(kept) >= max
     THEN [requests |-> kept,
           result |-> [allowed |-> FALSE, remaining |-> 0,
                       retryAfterMs |-> MathMax0(RetryAfterMs(kept, t))]]
     ELSE [requests |-> Append(reqs, t),
           result |-> [allowed |-> TRUE, remaining |-> max - (Len(kept) + 1),
                       retryAfterMs |-> Undefined]]

\* check() recording the request before it decides
check_recordsDenied(reqs, max, t) ==
  LET windowStart == t - windowMs
      kept == Prune(reqs, windowStart)
  IN IF Len(kept) >= max
     THEN [requests |-> Append(kept, t),
           result |-> [allowed |-> FALSE, remaining |-> 0,
                       retryAfterMs |-> MathMax0(RetryAfterMs(kept, t))]]
     ELSE [requests |-> Append(kept, t),
           result |-> [allowed |-> TRUE, remaining |-> max - (Len(kept) + 1),
                       retryAfterMs |-> Undefined]]

\* RateLimiter.check(): the result and the new this.requests
check(reqs, max, t) ==
  LET windowStart == t - windowMs
      kept == Prune(reqs, windowStart)
  IN IF Len(kept) >= max
     THEN [requests |-> kept,
           result |-> [allowed |-> FALSE, remaining |-> 0,
                       retryAfterMs |-> MathMax0(RetryAfterMs(kept, t))]]
     ELSE [requests |-> Append(kept, t),
           result |-> [allowed |-> TRUE, remaining |-> max - (Len(kept) + 1),
                       retryAfterMs |-> Undefined]]

\* reset() that keeps the newest timestamp
reset_keepsNewest(reqs) == IF reqs = <<>> THEN <<>> ELSE <<reqs[Len(reqs)]>>

\* RateLimiter.reset()
reset(reqs) == <<>>

\* RateLimiter.getState().count
getStateCount(l) == Len(requests[l])

\* getRateLimiterForTool charging the estimate, which uses the send endpoint, to SEND
getRateLimiterForTool_estimateAsSend(toolName) ==
  IF toolName \in {"send_sms", "estimate_sms_cost"}
  THEN "smsRateLimiter" ELSE "queryRateLimiter"

\* getRateLimiterForTool(toolName)
getRateLimiterForTool(toolName) ==
  IF toolName = "send_sms" THEN "smsRateLimiter" ELSE "queryRateLimiter"

\* Math.ceil rounding down instead of up
CeilSec_floor(ms) == IF ms = Infinity THEN Infinity ELSE ms \div 1000

\* Math.ceil(ms / 1000)
CeilSec(ms) == IF ms = Infinity THEN Infinity ELSE (ms + 999) \div 1000

\* `${n}` of a number
NumberToString(n) == IF n = Infinity THEN "Infinity" ELSE ToString(n)

\* checkRateLimit: the RateLimitError thrown for a denied result, or none
NoError ==
  [thrown |-> FALSE, limitType |-> "", retryAfterSec |-> Undefined, message |-> <<>>]

\* the RateLimitError of a given limit type and wait
RateLimitError(limitType, retryAfterSec) ==
  [thrown |-> TRUE, limitType |-> limitType, retryAfterSec |-> retryAfterSec,
   message |-> <<"Rate limit exceeded for ", limitType, ". ", "Please wait ",
                 NumberToString(retryAfterSec), " seconds before trying again.">>]

rateLimitError(toolName, result) ==
  IF ~result.allowed
  THEN RateLimitError(
         IF toolName = "send_sms" THEN "SMS sending" ELSE "query",
         IF result.retryAfterMs # Undefined /\ result.retryAfterMs # 0
         THEN CeilSec(result.retryAfterMs) ELSE 60)
  ELSE NoError

\* number of recorded check() calls
Recorded == Len(hist["smsRateLimiter"]) + Len(hist["queryRateLimiter"])

NoResult == [allowed |-> FALSE, remaining |-> 0, retryAfterMs |-> Undefined]

HistEntry(t, result) ==
  [t |-> t, allowed |-> result.allowed, remaining |-> result.remaining,
   retryAfterMs |-> result.retryAfterMs]

----------------------------------------------------------------------------
(* Strings. A string is a tuple of characters; a character is a one-letter  *)
(* string, or a name in angle brackets for a character with no ASCII glyph. *)

\* the value undefined of an argument that was not given
Undef == <<"<undefined>">>

Digits == {"0", "1", "2", "3", "4", "5", "6", "7", "8", "9"}

LowerCase == <<"a", "b", "c", "d", "e", "f", "g", "h", "i", "j", "k", "l", "m",
               "n", "o", "p", "q", "r", "s", "t", "u", "v", "w", "x", "y", "z">>

UpperCase == <<"A", "B", "C", "D", "E", "F", "G", "H", "I", "J", "K", "L", "M",
               "N", "O", "P", "Q", "R", "S", "T", "U", "V", "W", "X", "Y", "Z">>

Letters == {LowerCase[i] : i \in 1..26} \cup {UpperCase[i] : i \in 1..26}

\* \s of a regular expression, and what String.prototype.trim removes
WhiteSpace == {" ", "\t", "\n", "\r", "\f", "<VT>", "<NBSP>"}

\* c.toUpperCase() and c.toLowerCase() of one ASCII character
toUpperCase(c) ==
  IF \E i \in 1..26 : LowerCase[i] = c
  THEN UpperCase[CHOOSE i \in 1..26 : LowerCase[i] = c] ELSE c

toLowerCase(c) ==
  IF \E i \in 1..26 : UpperCase[i] = c
  THEN LowerCase[CHOOSE i \in 1..26 : UpperCase[i] = c] ELSE c

\* the string with the case of its letters kept
toUpperCaseString_asIs(str) == str

\* str.toUpperCase() and the case folding of the RegExp i flag
toUpperCaseString(str) == [i \in 1..Len(str) |-> toUpperCase(str[i])]

toLowerCaseString(str) == [i \in 1..Len(str) |-> toLowerCase(str[i])]

\* str.replace(/[set]/g, '')
Remove(str, set) == SelectSeq(str, LAMBDA c : c \notin set)

RECURSIVE trimStart(_)
trimStart(str) ==
  IF str # <<>> /\ Head(str) \in WhiteSpace THEN trimStart(Tail(str)) ELSE str

RECURSIVE trimEnd(_)
trimEnd(str) ==
  IF str # <<>> /\ str[Len(str)] \in WhiteSpace
  THEN trimEnd(SubSeq(str, 1, Len(str) - 1)) ELSE str

\* str.trim()
trim(str) == trimEnd(trimStart(str))

\* str.startsWith(prefix)
startsWith(str, prefix) ==
  Len(str) >= Len(prefix) /\ SubSeq(str, 1, Len(prefix)) = prefix

\* whether literal occurs in str at position i
At(str, i, literal) ==
  i >= 1 /\ i + Len(literal) - 1 <= Len(str)
         /\ SubSeq(str, i, i + Len(literal) - 1) = literal

\* str.includes(literal)
includes(str, literal) == \E i \in 1..(Len(str) + 1) : At(str, i, literal)

\* a ValidationOutcome; an absent error, info or warning is the empty tuple
Accept(info, warning) ==
  [info |-> info, warning |-> warning, isValid |-> TRUE, error |-> <<>>]

\* a rejection that carries no error text
Reject_withoutError(error) ==
  [info |-> <<>>, warning |-> <<>>, isValid |-> FALSE, error |-> <<>>]

Reject(error) ==
  [info |-> <<>>, warning |-> <<>>, isValid |-> FALSE, error |-> error]

----------------------------------------------------------------------------
(* Validators, src/src/validation.ts *)

blockedNumbers ==
  { <<"+", "4", "6", "7", "0", "1", "2", "3", "4", "5", "6", "7">>,
    <<"+", "4", "6", "7", "0", "0", "0", "0", "0", "0", "0", "0">>,
    <<"+", "1", "2", "3", "4", "5", "6", "7", "8", "9", "0">>,
    <<"+", "4", "6", "0", "0", "0", "0", "0", "0", "0", "0", "0">> }

\* validatePhoneNumber without the check for the leading +
validatePhoneNumber_noCountryCheck(phoneNumber) ==
  LET cleanNumber == Remove(phoneNumber, WhiteSpace \cup {"-", "(", ")", "."})
  IN IF cleanNumber = <<>>
     THEN Reject(<<"Phone number is required">>)
     ELSE IF cleanNumber \in blockedNumbers
     THEN Reject(<<"Please provide a real phone number - test/placeholder numbers are not allowed">>)
     ELSE IF Len(cleanNumber) < 8 \/ Len(cleanNumber) > 16
     THEN Reject(<<"Phone number length is invalid">>)
     ELSE IF \E i \in 2..Len(cleanNumber) : cleanNumber[i] \notin Digits
     THEN Reject(<<"Phone number can only contain digits after country code">>)
     ELSE IF /\ startsWith(cleanNumber, <<"+", "4", "6">>)
             /\ Len(cleanNumber) - 3 # 9
             /\ Len(cleanNumber) - 3 # 8
     THEN Reject(<<"Swedish phone numbers should be 8-9 digits after +46">>)
     ELSE Accept(<<>>, <<>>)

\* validatePhoneNumber(phoneNumber), phoneNumber a string
validatePhoneNumber(phoneNumber) ==
  LET cleanNumber == Remove(phoneNumber, WhiteSpace \cup {"-", "(", ")", "."})
  IN IF cleanNumber = <<>>
     THEN Reject(<<"Phone number is required">>)
     ELSE IF cleanNumber \in blockedNumbers
     THEN Reject(<<"Please provide a real phone number - test/placeholder numbers are not allowed">>)
     ELSE IF ~startsWith(cleanNumber, <<"+">>)
     THEN Reject(<<"Phone number must include country code (e.g., +46XXXXXXXXX)">>)
     ELSE IF Len(cleanNumber) < 8 \/ Len(cleanNumber) > 16
     THEN Reject(<<"Phone number length is invalid">>)
     ELSE IF \E i \in 2..Len(cleanNumber) : cleanNumber[i] \notin Digits
     THEN Reject(<<"Phone number can only contain digits after country code">>)
     ELSE IF /\ startsWith(cleanNumber, <<"+", "4", "6">>)
             /\ Len(cleanNumber) - 3 # 9
             /\ Len(cleanNumber) - 3 # 8
     THEN Reject(<<"Swedish phone numbers should be 8-9 digits after +46">>)
     ELSE Accept(<<>>, <<>>)

\* the characters /[\x00-\x08\x0B\x0C\x0E-\x1F\x7F]/ matches
StrippedControl == {"<NUL>", "<BEL>", "<BS>", "<VT>", "\f", "<ESC>", "<DEL>"}

\* stripControlCharacters(text)
stripControlCharacters(text) == Remove(text, StrippedControl)

\* the characters of the class in gsmChars other than letters, digits and \s
GsmSymbols ==
  {"@", "<pound>", "$", "<yen>", "<e-grave>", "<e-acute>", "<u-grave>",
   "<i-grave>", "<o-grave>", "<C-cedilla>", "<O-slash>", "<o-slash>",
   "<A-ring>", "<a-ring>", "<E-acute>", "<ae>", "<AE>", "<sharp-s>",
   "^", "{", "}", "[", "~", "]", "|", "<euro>", "\\"}

\* gsmChars.test(text)
isGsm(text) ==
  \A i \in 1..Len(text) :
    text[i] \in Letters \cup Digits \cup WhiteSpace \cup GsmSymbols

\* [^\s] at position i
NonSpaceAt(text, i) == i >= 1 /\ i <= Len(text) /\ text[i] \notin WhiteSpace

\* the top-level domains of the third pattern of detectUrls
Tlds == { <<"c", "o", "m">>, <<"o", "r", "g">>, <<"n", "e", "t">>, <<"s", "e">>,
          <<"i", "o">>, <<"c", "o">>, <<"u", "k">>, <<"a", "p", "p">>,
          <<"d", "e", "v">>, <<"i", "n", "f", "o">>, <<"b", "i", "z">> }

\* literal followed by at least one [^\s]
LinkAt(text, i, literal) ==
  At(text, i, literal) /\ NonSpaceAt(text, i + Len(literal))

\* detectUrls(text): whether one of urlPatterns, which ignore case, matches
hasUrl(text) ==
  LET lower == toLowerCaseString(text)
  IN \E i \in 1..Len(text) :
       \/ LinkAt(lower, i, <<"h", "t", "t", "p", ":", "/", "/">>)
       \/ LinkAt(lower, i, <<"h", "t", "t", "p", "s", ":", "/", "/">>)
       \/ LinkAt(lower, i, <<"w", "w", "w", ".">>)
       \/ /\ text[i] \in Letters \cup Digits \cup {"-"}
          /\ \E tld \in Tlds : At(lower, i + 1, <<".">> \o tld)
       \/ LinkAt(lower, i, <<"b", "i", "t", ".", "l", "y", "/">>)
       \/ LinkAt(lower, i, <<"t", "i", "n", "y", "u", "r", "l", ".", "c", "o", "m", "/">>)
       \/ LinkAt(lower, i, <<"t", ".", "c", "o", "/">>)

urlWarningText ==
  <<"Message contains URL/link - ensure this is legitimate and not misleading">>

\* Math.ceil rounding down instead of up
Ceil_floor(a, b) == a \div b

\* Math.ceil(a / b) for positive b
Ceil(a, b) == (a + b - 1) \div b

\* the sanitized text validateSmsMessage measures
trimmedMessage(message) == stripControlCharacters(trim(message))

\* validateSmsMessage(message), message a string or undefined
validateSmsMessage(message) ==
  IF message = Undef \/ message = <<>> \/ Len(trim(message)) = 0
  THEN Reject(<<"Message content is required">>)
  ELSE
    LET text == trimmedMessage(message)
        isGsmEncoding == isGsm(text)
        maxSingleLength == IF isGsmEncoding THEN 160 ELSE 70
        segmentLength == IF isGsmEncoding THEN 153 ELSE 67
        maxMultipartLength == IF isGsmEncoding THEN 1530 ELSE 670
        encoding == IF isGsmEncoding THEN "GSM" ELSE "Unicode"
        segments == IF Len(text) <= maxSingleLength
                    THEN 1 ELSE Ceil(Len(text), segmentLength)
        info == IF Len(text) <= maxSingleLength
                THEN <<"1 SMS segment (", encoding, " encoding)">>
                ELSE <<ToString(segments), " SMS segments (", encoding, " encoding)">>
        costWarning ==
          IF Len(text) <= maxSingleLength THEN <<>>
          ELSE IF ~isGsmEncoding /\ segments >= 2
          THEN <<"Unicode SMS is more expensive and uses ", ToString(segments), " segments">>
          ELSE IF segments >= 3
          THEN <<"Multi-part SMS will cost ", ToString(segments), "x normal price">>
          ELSE <<>>
        warning ==
          IF ~hasUrl(text) THEN costWarning
          ELSE IF costWarning # <<>> THEN costWarning \o <<"\n">> \o urlWarningText
          ELSE urlWarningText
    IN IF Len(text) > maxMultipartLength
       THEN Reject(<<"Message too long (max ", ToString(maxMultipartLength),
                     " chars). This appears to be bulk content - use dedicated bulk SMS services instead.">>)
       ELSE [info |-> info, warning |-> warning, isValid |-> TRUE, error |-> <<>>]

suspiciousSenders ==
  { <<"B", "A", "N", "K">>, <<"P", "O", "L", "I", "C", "E">>,
    <<"G", "O", "V", "E", "R", "N", "M", "E", "N", "T">>,
    <<"O", "F", "F", "I", "C", "I", "A", "L">>, <<"U", "R", "G", "E", "N", "T">>,
    <<"W", "I", "N", "N", "E", "R">>, <<"P", "R", "I", "Z", "E">>,
    <<"S", "E", "C", "U", "R", "I", "T", "Y">>, <<"V", "E", "R", "I", "F", "Y">>,
    <<"C", "O", "N", "F", "I", "R", "M">>, <<"A", "L", "E", "R", "T">>,
    <<"W", "A", "R", "N", "I", "N", "G">> }

\* validateSenderId(senderId), senderId a string or undefined
validateSenderId(senderId) ==
  IF senderId = Undef \/ senderId = <<>>
  THEN Accept(<<>>, <<>>)
  ELSE
    LET trimmed == trim(senderId)
    IN IF startsWith(trimmed, <<"+">>)
       THEN IF ~validatePhoneNumber(trimmed).isValid
            THEN validatePhoneNumber(trimmed)
            ELSE Accept(<<>>, <<"Using phone numbers as sender - ensure you can receive replies and have permission to use this number">>)
       ELSE IF Len(trimmed) > 11
       THEN Reject(<<"Alphanumeric sender ID must be 11 characters or less">>)
       ELSE IF trimmed = <<>> \/ trimmed[1] \notin Letters
       THEN Reject(<<"Alphanumeric sender ID must start with a letter (46elks requirement)">>)
       ELSE IF \E i \in 1..Len(trimmed) : trimmed[i] \notin Letters \cup Digits
       THEN Reject(<<"Sender ID can only contain letters and numbers (no spaces)">>)
       ELSE IF \E suspicious \in suspiciousSenders :
                 includes(toUpperCaseString(trimmed), suspicious)
       THEN Reject(<<"Sender ID appears to impersonate official entities - use your own business/service name">>)
       ELSE Accept(<<>>, <<>>)

\* a JavaScript value given as limit: <<"integer", n>> is the integer n,
\* <<"fraction", n>> the number n + 0.5, and NaN, a string or undefined are
\* one-element tuples
IntegerNumber(n) == <<"integer", n>>

\* Number.isInteger(value)
isInteger(value) == value[1] = "integer"

\* validateMessageLimit(limit)
validateMessageLimit(limit) ==
  IF ~isInteger(limit) THEN Reject(<<"Limit must be an integer">>)
  ELSE IF limit[2] < 1 THEN Reject(<<"Limit must be at least 1">>)
  ELSE IF limit[2] > 100 THEN Reject(<<"Limit cannot exceed 100">>)
  ELSE Accept(<<>>, <<>>)

validDirections == {"inbound", "outbound", "both"}

\* validateDirection(direction), direction a string
validateDirection(direction) ==
  IF direction \notin validDirections
  THEN Reject(<<"Direction must be one of: ", "inbound, outbound, both">>)
  ELSE Accept(<<>>, <<>>)

\* validateMessageId(messageId), messageId a string, null or undefined
validateMessageId(messageId) ==
  IF messageId = Undef \/ messageId = <<>>
  THEN Reject(<<"Message ID is required and must be a string">>)
  ELSE
    LET trimmed == trim(messageId)
    IN IF Len(trimmed) = 0
       THEN Reject(<<"Message ID cannot be empty">>)
       ELSE IF \E i \in 1..Len(trimmed) : trimmed[i] \notin Letters \cup Digits \cup {"_", "-"}
       THEN Reject(<<"Message ID contains invalid characters (must be alphanumeric)">>)
       ELSE IF Len(trimmed) > 64
       THEN Reject(<<"Message ID is too long (max 64 characters)">>)
       ELSE Accept(<<>>, <<>>)

----------------------------------------------------------------------------
(* Errors, src/unnamed/part_004 246-324 *)

NoThrow == [kind |-> "none", name |-> "", code |-> "", message |-> <<>>]

\* new ValidationError(message), an SmsError with code VALIDATION_ERROR
ValidationError(message) ==
  [kind |-> "SmsError", name |-> "ValidationError", code |-> "VALIDATION_ERROR",
   message |-> message]

\* new Error(message), and the TypeError of reading a property of undefined
PlainError(message) ==
  [kind |-> "Error", name |-> "Error", code |-> "", message |-> message]

TypeError(message) ==
  [kind |-> "Error", name |-> "TypeError", code |-> "", message |-> message]

\* new McpError(code, message): an Error whose message carries the code
McpError(code, message) ==
  [kind |-> "Error", name |-> "McpError", code |-> "",
   message |-> <<"MCP error ", code, ": ">> \o message]

\* formatErrorResponse keeping the message of an SmsError only
formatErrorResponse_smsErrorOnly(error) ==
  IF error.kind = "SmsError"
  THEN <<"Error (", error.code, "): ">> \o error.message
  ELSE <<"Error: ", "An unknown error occurred">>

\* formatErrorResponse(error): the text of the response
formatErrorResponse(error) ==
  LET errorMessage == IF error.kind \in {"SmsError", "Error"}
                      THEN error.message ELSE <<"An unknown error occurred">>
      errorCode == IF error.kind = "SmsError" THEN error.code
                   ELSE IF error.kind = "Error" /\ error.name = "RateLimitError"
                   THEN "RATE_LIMIT_EXCEEDED" ELSE ""
  IN IF errorCode # "" THEN <<"Error (", errorCode, "): ">> \o errorMessage
     ELSE <<"Error: ">> \o errorMessage

\* handleValidationError(field, validation): what it throws, if anything
handleValidationError(field, validation) ==
  IF ~validation.isValid /\ validation.error # <<>>
  THEN ValidationError(<<"Invalid ", field, ": ">> \o validation.error)
  ELSE NoThrow

----------------------------------------------------------------------------
(* Remote client, src/unnamed/part_004 46-244: the request each method sends *)

\* config.elksPhoneNumber
elksPhoneNumber == <<"<ELKS_PHONE_NUMBER>">>

NoRequest ==
  [endpoint |-> "none", to |-> <<>>, message |-> <<>>, from |-> <<>>,
   dryrun |-> FALSE, flashsms |-> FALSE, limit |-> Undefined,
   direction |-> "", id |-> <<>>]

\* sendSms taking the dry-run mode from the configuration only
sendSms_configOnly(to, message, from, dry, flashsms, cfgDryRun) ==
  [NoRequest EXCEPT
     !.endpoint = "POST /sms",
     !.to = to,
     !.message = message,
     !.from = IF from = Undef \/ from = <<>> THEN elksPhoneNumber ELSE from,
     !.dryrun = cfgDryRun,
     !.flashsms = (flashsms = "yes")]

\* ElksClient.sendSms(to, message, from, dryRun, flashsms) with this.dryRun = cfgDryRun
sendSms(to, message, from, dry, flashsms, cfgDryRun) ==
  [NoRequest EXCEPT
     !.endpoint = "POST /sms",
     !.to = to,
     !.message = message,
     !.from = IF from = Undef \/ from = <<>> THEN elksPhoneNumber ELSE from,
     !.dryrun = IF dry # "<undefined>" THEN dry = "true" ELSE cfgDryRun,
     !.flashsms = (flashsms = "yes")]

\* ElksClient.getMessages(limit, direction)
getMessages(limit, direction) ==
  [NoRequest EXCEPT
     !.endpoint = "GET /sms",
     !.limit = limit,
     !.direction = IF direction = "<undefined>" \/ direction = "" THEN ""
                   ELSE IF direction = "outbound" THEN "outgoing" ELSE "incoming"]

\* ElksClient.getMessageById(messageId): the id is put into the path as it is
getMessageById(messageId) ==
  [NoRequest EXCEPT !.endpoint = "GET /sms/{id}", !.id = messageId]

\* ElksClient.getAccountInfo()
getAccountInfo == [NoRequest EXCEPT !.endpoint = "GET /Me"]

\* the Error a method throws when the response is not ok
remoteError(request) ==
  PlainError(
    IF request.endpoint = "POST /sms" THEN <<"Failed to send SMS: ", "<status>">>
    ELSE IF request.endpoint = "GET /sms" THEN <<"Failed to get messages: ", "<status>">>
    ELSE IF request.endpoint = "GET /sms/{id}" THEN <<"Failed to get message: ", "<status>">>
    ELSE <<"46elks account info failed: ", "Failed to get account info: ", "<status>">>)

----------------------------------------------------------------------------
(* Tool-call handler, src/src/index.ts 152-355 *)

\* the arguments of a call; a field that was not given is undefined
NoArgs ==
  [to |-> Undef, message |-> Undef, from |-> Undef, dry_run |-> "<undefined>",
   flashsms |-> "<undefined>", limit |-> Undefined, direction |-> "<undefined>",
   message_id |-> Undef]

\* the first error thrown by a sequence of statements, NoThrow if none throws
RECURSIVE FirstThrown(_)
FirstThrown(thrown) ==
  IF thrown = <<>> THEN NoThrow
  ELSE IF Head(thrown).kind # "none" THEN Head(thrown)
  ELSE FirstThrown(Tail(thrown))

\* the same statements with the message validated before the phone number
validateSmsInputs_messageFirst(args) ==
  FirstThrown(<<
    handleValidationError("message", validateSmsMessage(args.message)),
    IF args.to = Undef
    THEN TypeError(<<"Cannot read properties of undefined (reading 'replace')">>)
    ELSE handleValidationError("phone number", validatePhoneNumber(args.to)),
    IF args.from # Undef /\ args.from # <<>>
    THEN handleValidationError("sender ID", validateSenderId(args.from))
    ELSE NoThrow >>)

\* the validation statements of send_sms and estimate_sms_cost, in order:
\* validatePhoneNumber(undefined) throws a TypeError at phoneNumber.replace
validateSmsInputs(args) ==
  FirstThrown(<<
    IF args.to = Undef
    THEN TypeError(<<"Cannot read properties of undefined (reading 'replace')">>)
    ELSE handleValidationError("phone number", validatePhoneNumber(args.to)),
    handleValidationError("message", validateSmsMessage(args.message)),
    IF args.from # Undef /\ args.from # <<>>
    THEN handleValidationError("sender ID", validateSenderId(args.from))
    ELSE NoThrow >>)

\* Math.min(Math.max(x, lo), hi)
Clamp(x, lo, hi) == IF x < lo THEN lo ELSE IF x > hi THEN hi ELSE x

\* the handler up to its await: the error it throws, or the request it sends
\* and what it keeps for the response (isDryRunMode, messageValidation.warning)
Outcome(thrown, request, isDryRunMode, warning) ==
  [thrown |-> thrown, request |-> request, isDryRunMode |-> isDryRunMode,
   warning |-> warning]

handleToolCall(name, args, cfgDryRun) ==
  IF name = "send_sms"
  THEN LET isDryRunMode == IF args.dry_run # "<undefined>"
                           THEN args.dry_run = "true" ELSE cfgDryRun
           thrown == validateSmsInputs(args)
       IN IF thrown.kind # "none"
          THEN Outcome(thrown, NoRequest, isDryRunMode, <<>>)
          ELSE Outcome(NoThrow,
                       sendSms(args.to, args.message, args.from, args.dry_run,
                               args.flashsms, cfgDryRun),
                       isDryRunMode, validateSmsMessage(args.message).warning)
  ELSE IF name = "get_sms_messages"
  THEN LET limit == IF args.limit = Undefined THEN 10 ELSE args.limit
           messageLimit == Clamp(limit, 1, 100)
       IN Outcome(NoThrow,
                  getMessages(messageLimit,
                              IF args.direction = "both"
                              THEN "<undefined>" ELSE args.direction),
                  FALSE, <<>>)
  ELSE IF name = "check_sms_status"
  THEN IF args.message_id = Undef \/ args.message_id = <<>>
       THEN Outcome(McpError("-32602", <<"message_id is required and must be a string">>),
                    NoRequest, FALSE, <<>>)
       ELSE Outcome(NoThrow, getMessageById(args.message_id), FALSE, <<>>)
  ELSE IF name = "check_account_balance"
  THEN Outcome(NoThrow, getAccountInfo, FALSE, <<>>)
  ELSE IF name = "estimate_sms_cost"
  THEN LET thrown == validateSmsInputs(args)
       IN IF thrown.kind # "none"
          THEN Outcome(thrown, NoRequest, FALSE, <<>>)
          ELSE Outcome(NoThrow,
                       sendSms(args.to, args.message, args.from, "true",
                               "<undefined>", cfgDryRun),
                       FALSE, validateSmsMessage(args.message).warning)
  ELSE IF name = "get_delivery_statistics"
  THEN LET statsLimit == IF args.limit = Undefined THEN 50 ELSE args.limit
           analysisLimit == Clamp(statsLimit, 10, 100)
       IN Outcome(NoThrow, getMessages(analysisLimit, "<undefined>"), FALSE, <<>>)
  ELSE Outcome(McpError("-32601", <<"Unknown tool: ", name>>), NoRequest, FALSE, <<>>)

\* a response text that labels every send as SENT
successText_labelsSent(name, isDryRunMode, warning) ==
  IF name = "send_sms"
  THEN <<"SENT", " SMS Status: ", "<status>">>
       \o (IF warning # <<>> THEN <<"\n\n">> \o warning ELSE <<>>)
  ELSE <<"<text>">>

\* the text the handler returns once the remote call has succeeded
successText(name, isDryRunMode, warning) ==
  IF name = "send_sms"
  THEN <<IF isDryRunMode THEN "DRY RUN" ELSE "SENT", " SMS Status: ", "<status>">>
       \o (IF isDryRunMode THEN <<"This was a test - no actual SMS was sent">> ELSE <<>>)
       \o (IF warning # <<>> THEN <<"\n\n">> \o warning ELSE <<>>)
  ELSE IF name = "get_sms_messages" THEN <<"SMS Message History">>
  ELSE IF name = "check_sms_status" THEN <<"SMS Status Check">>
  ELSE IF name = "check_account_balance" THEN <<"Account Balance Information">>
  ELSE IF name = "estimate_sms_cost"
  THEN <<"SMS Cost Estimate">>
       \o (IF warning # <<>> THEN warning \o <<"\n\n">> ELSE <<>>)
       \o <<"This was an estimate only - no SMS was sent">>
  ELSE <<"SMS Delivery Statistics">>

\* the response of the handler: { content: [{ type: 'text', text }] }
Response(isError, text) == [isError |-> isError, text |-> text]

NoResponse == Response(FALSE, <<>>)

\* no call handled yet
NoCall ==
  [tool |-> "", args |-> NoArgs, status |-> "none", request |-> NoRequest,
   isDryRunMode |-> FALSE, warning |-> <<>>, response |-> NoResponse]

----------------------------------------------------------------------------
(* Startup, src/src/index.ts 358-396 and src/src/config.ts *)

\* parseInt of a PORT that is not a number
NaN == -2

\* the fields of config that validateConfig reads
Config(elksUsername, elksPassword, phoneNumber, port) ==
  [elksUsername |-> elksUsername, elksPassword |-> elksPassword,
   elksPhoneNumber |-> phoneNumber, port |-> port]

\* a configuration validateConfig accepts
ValidConfig == Config(<<"u">>, <<"p">>, <<"+", "4", "6">>, 3001)

ConfigSamples ==
  {Config(u, p, n, port) :
     u \in {<<>>, <<"u">>}, p \in {<<>>, <<"p">>},
     n \in {<<>>, <<"0", "7">>, <<"+", "4", "6">>},
     port \in {NaN, 0, 3001, 65536}}

\* validateConfig(): the Error it throws, or none
validateConfig(cfg) ==
  IF cfg.elksUsername = <<>> \/ cfg.elksPassword = <<>> \/ cfg.elksPhoneNumber = <<>>
  THEN PlainError(<<"Missing required environment variables: ", "<names>">>)
  ELSE IF ~startsWith(cfg.elksPhoneNumber, <<"+">>)
  THEN PlainError(<<"ELKS_PHONE_NUMBER must include country code (e.g., +46XXXXXXXXX)">>)
  ELSE IF cfg.port = NaN \/ cfg.port < 1 \/ cfg.port > 65535
  THEN PlainError(<<"PORT must be a valid port number between 1 and 65535">>)
  ELSE NoThrow

\* main() about to run under configuration cfg
Starting(cfg) == [phase |-> "main", config |-> cfg, connectionOk |-> FALSE]

\* the server once main() has connected the transport
Started == [phase |-> "connected", config |-> ValidConfig, connectionOk |-> TRUE]

\* no validator called yet
NoValidation == [validator |-> "", input |-> <<>>, outcome |-> Accept(<<>>, <<>>)]

----------------------------------------------------------------------------
(* State after module load: both limiters constructed empty *)

InitLimiters ==
  /\ now = 0
  /\ requests = [l \in Limiters |-> <<>>]
  /\ origin = [l \in Limiters |-> "constructed"]
  /\ hist = [l \in Limiters |-> <<>>]
  /\ op = [name |-> "init", tool |-> "", limiter |-> "", result |-> NoResult,
           error |-> NoError]

InitDispatcher ==
  /\ cur = NoCall
  /\ handled = 0
  /\ sent = <<>>
  /\ audit = <<>>
  /\ auditIn = <<>>
  /\ startup = Started
  /\ val = NoValidation
  /\ inflight = [i \in 1..MaxInFlight |-> "none"]

\* the limiters under every configuration; they do not read config.dryRun,
\* which is left at its default
Init ==
  /\ InitLimiters
  /\ InitDispatcher
  /\ maxRequests \in [Limiters -> 0..MaxRequests]
  /\ dryRun = FALSE

\* Date.now() advances
Tick ==
  /\ \E t \in Instants : t > now /\ now' = t
  /\ UNCHANGED <<limiterVars, dispatchVars>>

\* limiter.check() called directly on one instance
Check(l) ==
  /\ Recorded < MaxChecks
  /\ LET c == check(requests[l], maxRequests[l], now)
     IN /\ requests' = [requests EXCEPT ![l] = c.requests]
        /\ hist' = [hist EXCEPT ![l] = Append(@, HistEntry(now, c.result))]
        /\ op' = [name |-> "check", tool |-> "", limiter |-> l,
                  result |-> c.result, error |-> NoError]
  /\ UNCHANGED <<now, maxRequests, origin, dispatchVars>>

\* checkRateLimit(toolName)
CheckRateLimit(toolName) ==
  /\ LET l == getRateLimiterForTool(toolName)
         c == check(requests[l], maxRequests[l], now)
     IN /\ Recorded < MaxChecks
        /\ requests' = [requests EXCEPT ![l] = c.requests]
        /\ hist' = [hist EXCEPT ![l] = Append(@, HistEntry(now, c.result))]
        /\ op' = [name |-> "checkRateLimit", tool |-> toolName, limiter |-> l,
                  result |-> c.result,
                  error |-> rateLimitError(toolName, c.result)]
  /\ UNCHANGED <<now, maxRequests, origin, dispatchVars>>

\* limiter.reset() on one instance
Reset(l) ==
  /\ requests' = [requests EXCEPT ![l] = reset(@)]
  /\ origin' = [origin EXCEPT ![l] = "reset"]
  /\ hist' = [hist EXCEPT ![l] = <<>>]
  /\ op' = [name |-> "reset", tool |-> "", limiter |-> l, result |-> NoResult,
            error |-> NoError]
  /\ UNCHANGED <<now, maxRequests, dispatchVars>>

\* resetAllRateLimiters()
ResetAllRateLimiters ==
  /\ requests' = [l \in Limiters |-> reset(requests[l])]
  /\ origin' = [l \in Limiters |-> "reset"]
  /\ hist' = [l \in Limiters |-> <<>>]
  /\ op' = [name |-> "resetAll", tool |-> "", limiter |-> "",
            result |-> NoResult, error |-> NoError]
  /\ UNCHANGED <<now, maxRequests, dispatchVars>>

Next ==
  \/ Tick
  \/ \E l \in Limiters : Check(l)
  \/ \E toolName \in ToolNames : CheckRateLimit(toolName)
  \/ \E l \in Limiters : Reset(l)
  \/ ResetAllRateLimiters

Spec == Init /\ [][Next]_vars

----------------------------------------------------------------------------
(* The dispatcher: tool calls arrive one at a time and each is handled to   *)
(* completion, suspended only at the await of its remote call.              *)

PhoneOk == <<"+", "4", "6", "7", "0", "1", "2", "3", "4", "5", "6", "8">>

PhoneNoCountryCode == <<"0", "7", "0", "1", "2", "3", "4", "5", "6", "8">>

ToSamples == {Undef, PhoneOk, PhoneNoCountryCode}

MessageSamples == { <<>>, <<"<BEL>">>, <<"t", ".", "c", "o", "/", "x">> }

FromSamples == {Undef, <<"B", "a", "n", "k">>, <<"A", "c", "m", "e">>}

MessageIdSamples ==
  { Undef, <<>>, <<"s", "0", "_", "-", "A">>, <<".", ".", "/", "M", "e">>,
    <<"a", "?", "b">>, <<"a", " ", "b">> }

SmsArgs ==
  {[NoArgs EXCEPT !.to = t, !.message = m, !.from = f] :
     t \in ToSamples, m \in MessageSamples, f \in FromSamples}

\* the argument bags a client sends with each tool name
ArgsOf(name) ==
  IF name = "send_sms"
  THEN SmsArgs \cup
       {[NoArgs EXCEPT !.to = PhoneOk, !.message = <<"H", "i">>,
                       !.dry_run = d, !.flashsms = fl] :
          d \in {"true", "false"}, fl \in {"<undefined>", "yes"}}
  ELSE IF name = "estimate_sms_cost"
  THEN SmsArgs \cup
       {[NoArgs EXCEPT !.to = PhoneOk, !.message = <<"H", "i">>, !.dry_run = "false"]}
  ELSE IF name = "check_sms_status"
  THEN {[NoArgs EXCEPT !.message_id = id] : id \in MessageIdSamples}
  ELSE IF name = "get_sms_messages"
  THEN {[NoArgs EXCEPT !.limit = n] : n \in {Undefined, 0, 5, 500}} \cup
       {[NoArgs EXCEPT !.direction = d] :
          d \in {"inbound", "outbound", "both", "sideways"}}
  ELSE IF name = "get_delivery_statistics"
  THEN {[NoArgs EXCEPT !.limit = n] : n \in {Undefined, 5, 500}}
  ELSE {NoArgs}

\* the calls of the model, and what the handler does with each up to its await
Calls ==
  {<<name, args, cfgDryRun>> :
     name \in ToolNames, args \in UNION {ArgsOf(n) : n \in ToolNames},
     cfgDryRun \in BOOLEAN}

Handled == [c \in Calls |-> handleToolCall(c[1], c[2], c[3])]

\* the handler is invoked and runs to its await or to its catch block
CallTool(name, args) ==
  /\ startup.phase = "connected"
  /\ cur.status # "pending"
  /\ handled < MaxCalls
  /\ LET h == Handled[<<name, args, dryRun>>]
     IN /\ cur' = [tool |-> name, args |-> args,
                   status |-> IF h.thrown.kind # "none" THEN "done" ELSE "pending",
                   request |-> h.request,
                   isDryRunMode |-> h.isDryRunMode,
                   warning |-> h.warning,
                   response |-> IF h.thrown.kind # "none"
                                THEN Response(TRUE, formatErrorResponse(h.thrown))
                                ELSE NoResponse]
        /\ sent' = IF name = "send_sms" /\ h.request.endpoint = "POST /sms"
                   THEN Append(sent, now) ELSE sent
  /\ handled' = handled + 1
  /\ UNCHANGED <<now, limiterVars, dryRun, audit, auditIn, startup, val, inflight>>

\* the remote API answers; the handler resumes and returns its response
RemoteReply(ok) ==
  /\ cur.status = "pending"
  /\ cur' = [cur EXCEPT
       !.status = "done",
       !.response =
          IF ok THEN Response(FALSE, successText(cur.tool, cur.isDryRunMode, cur.warning))
          ELSE Response(TRUE, formatErrorResponse(remoteError(cur.request)))]
  /\ UNCHANGED <<now, limiterVars, dryRun, handled, sent, audit, auditIn, startup, val, inflight>>

\* the dispatcher under every setting of DRY_RUN and of the SEND limit; it
\* reads neither limiter, and the QUERY limit is left at the largest value
InitDispatch ==
  /\ InitLimiters
  /\ InitDispatcher
  /\ \E n \in 0..MaxRequests :
       maxRequests = [l \in Limiters |->
                        IF l = "smsRateLimiter" THEN n ELSE MaxRequests]
  /\ dryRun \in BOOLEAN

NextDispatch ==
  \/ Tick
  \/ \E name \in ToolNames : \E args \in ArgsOf(name) : CallTool(name, args)
  \/ \E ok \in BOOLEAN : RemoteReply(ok)

SpecDispatch == InitDispatch /\ [][NextDispatch]_vars

----------------------------------------------------------------------------
(* Several invocations in flight. The handler is an async function: it runs *)
(* without interruption from its call to its await of the remote call, and  *)
(* other invocations and other callers of check() run while it is          *)
(* suspended there. check() contains no await.                              *)

\* the tools invoked concurrently, with arguments that pass their validation
InFlightTools == {"send_sms", "get_sms_messages"}

InFlightArgs(name) ==
  IF name = "send_sms"
  THEN {NoArgs, [NoArgs EXCEPT !.to = PhoneOk, !.message = <<"H", "i">>,
                               !.dry_run = "true", !.flashsms = "<undefined>"]}
  ELSE {NoArgs}

\* invocation i of the handler runs to its await, or to its catch block
Invoke(i, name, args) ==
  /\ inflight[i] = "none"
  /\ inflight' = [inflight EXCEPT ![i] =
                    IF Handled[<<name, args, dryRun>>].thrown.kind # "none"
                    THEN "none" ELSE name]
  /\ UNCHANGED <<now, limiterVars, dryRun, cur, handled, sent, audit, auditIn,
                 startup, val>>

\* the remote call of invocation i returns and the invocation ends
Return(i) ==
  /\ inflight[i] # "none"
  /\ inflight' = [inflight EXCEPT ![i] = "none"]
  /\ UNCHANGED <<now, limiterVars, dryRun, cur, handled, sent, audit, auditIn,
                 startup, val>>

InitConcurrent ==
  /\ InitLimiters
  /\ InitDispatcher
  /\ \E n \in 1..MaxRequests : maxRequests = [l \in Limiters |-> n]
  /\ dryRun = FALSE

NextConcurrent ==
  \/ Tick
  \/ \E toolName \in InFlightTools : CheckRateLimit(toolName)
  \/ \E i \in 1..MaxInFlight : \E name \in InFlightTools :
       \E args \in InFlightArgs(name) : Invoke(i, name, args)
  \/ \E i \in 1..MaxInFlight : Return(i)

SpecConcurrent == InitConcurrent /\ [][NextConcurrent]_vars

----------------------------------------------------------------------------
(* Properties of the rate limiter *)

\* the timestamps of reqs a check at time t retains: those in (t - windowMs, t]
InWindow(reqs, t) == {i \in DOMAIN reqs : reqs[i] > t - windowMs}

\* a step that is a call of check(), directly or through checkRateLimit
IsCheckStep == now' = now /\ op'.name \in {"check", "checkRateLimit"}

\* C1: from an empty limiter with maxRequests = N >= 1, the first N check()
\* calls made within one window are allowed and return remaining N-1, ..., 0
\* in that order, and every further check() in that window is denied with
\* remaining = 0 and retryAfterMs > 0.
C1_FillThenDeny ==
  \A l \in Limiters :
    maxRequests[l] >= 1 =>
      \A i \in DOMAIN hist[l] :
        hist[l][i].t - hist[l][1].t < windowMs =>
          IF i <= maxRequests[l]
          THEN /\ hist[l][i].allowed
               /\ hist[l][i].remaining = maxRequests[l] - i
          ELSE /\ ~hist[l][i].allowed
               /\ hist[l][i].remaining = 0
               /\ hist[l][i].retryAfterMs > 0

\* two allowed checks at different instants of one window, then a denied one
C1_Witness ==
  \E l \in Limiters :
    /\ maxRequests[l] = 2
    /\ Len(hist[l]) >= 3
    /\ hist[l][1].t < hist[l][2].t
    /\ hist[l][3].t - hist[l][1].t < windowMs
    /\ hist[l][1].remaining = 1 /\ hist[l][2].remaining = 0
    /\ ~hist[l][3].allowed

\* C2: sliding-window bound. Since a limiter was last emptied, for every
\* instant t the number of allowed checks with a timestamp in
\* (t - windowMs, t] is at most maxRequests, wherever t lies in its minute.
C2_SlidingWindowBound ==
  \A l \in Limiters :
    \A t \in Instants :
      Cardinality({i \in DOMAIN hist[l] :
                     /\ hist[l][i].allowed
                     /\ hist[l][i].t > t - windowMs
                     /\ hist[l][i].t <= t}) <= maxRequests[l]

\* a check denied in the minute after the one that filled the window, and a
\* later check allowed once the window had slid past the first admission
C2_Witness ==
  \E l \in Limiters :
    \E i, j, k \in DOMAIN hist[l] :
      /\ i < j /\ j < k
      /\ hist[l][i].allowed /\ ~hist[l][j].allowed /\ hist[l][k].allowed
      /\ hist[l][i].t \div windowMs < hist[l][j].t \div windowMs
      /\ hist[l][k].t - hist[l][i].t >= windowMs

\* C3: a denied check() records nothing: the timestamps retained after it are
\* those retained before it minus the expired ones, so at every later instant
\* the limiter has room exactly when it had room without the denied call.
C3_DeniedNotRecorded ==
  [][(IsCheckStep /\ ~op'.result.allowed) =>
       LET l == op'.limiter
       IN /\ requests'[l] =
               SelectSeq(requests[l], LAMBDA ts : ts > now - windowMs)
          /\ \A t \in Instants :
               t >= now =>
                 (Cardinality(InWindow(requests'[l], t)) < maxRequests[l]
                    <=> Cardinality(InWindow(requests[l], t)) < maxRequests[l])]_vars

\* two denied checks in a row on a limiter that holds timestamps
C3_Witness ==
  \E l \in Limiters :
    /\ op.name \in {"check", "checkRateLimit"} /\ op.limiter = l
    /\ ~op.result.allowed
    /\ Len(requests[l]) >= 1
    /\ Len(hist[l]) >= 2
    /\ ~hist[l][Len(hist[l])].allowed
    /\ ~hist[l][Len(hist[l]) - 1].allowed

\* C4 as stated: after reset() or resetAllRateLimiters() the retained count is
\* 0 and the next check() is allowed with remaining = maxRequests - 1.
C4_Original ==
  /\ op.name = "reset" => Len(requests[op.limiter]) = 0
  /\ op.name = "resetAll" => \A l \in Limiters : Len(requests[l]) = 0
  /\ \A l \in Limiters :
       (origin[l] = "reset" /\ Len(hist[l]) >= 1) =>
         /\ hist[l][1].allowed
         /\ hist[l][1].remaining = maxRequests[l] - 1

\* the first check() of a limiter constructed with maxRequests = max
FreshFirstCheck(max) ==
  IF max >= 1 THEN [allowed |-> TRUE, remaining |-> max - 1]
  ELSE [allowed |-> FALSE, remaining |-> 0]

\* C4 amended: after reset() or resetAllRateLimiters(), whatever came before,
\* the retained count is 0 and the next check() returns what the first check()
\* of a freshly constructed limiter returns: allowed with remaining =
\* maxRequests - 1 when maxRequests >= 1, denied with remaining = 0 when
\* maxRequests = 0; a second reset() changes nothing.
C4_ResetAsFresh ==
  /\ op.name = "reset" => Len(requests[op.limiter]) = 0
  /\ op.name = "resetAll" => \A l \in Limiters : Len(requests[l]) = 0
  /\ \A l \in Limiters :
       Len(hist[l]) >= 1 =>
         /\ hist[l][1].allowed = FreshFirstCheck(maxRequests[l]).allowed
         /\ hist[l][1].remaining = FreshFirstCheck(maxRequests[l]).remaining
  /\ \A l \in Limiters :
       (origin[l] = "reset" /\ hist[l] = <<>>) => requests[l] = <<>>

\* a limiter that was reset while the clock had moved on from its admissions,
\* then checked again and allowed
C4_Witness ==
  \E l \in Limiters :
    /\ origin[l] = "reset"
    /\ maxRequests[l] >= 1
    /\ Len(hist[l]) >= 1
    /\ hist[l][1].allowed
    /\ hist[l][1].remaining = maxRequests[l] - 1
    /\ hist[l][1].t > 0

\* C10: checkRateLimit charges send_sms to the SEND limiter and every other
\* tool to the one QUERY limiter: the call leaves the other limiter's
\* timestamps untouched, and it throws exactly when the limiter of the tool's
\* category already retains maxRequests timestamps in the window, whichever
\* tools put them there.
C10_CategoryFrame ==
  [][(now' = now /\ op'.name = "checkRateLimit") =>
       LET mine == IF op'.tool = "send_sms"
                   THEN "smsRateLimiter" ELSE "queryRateLimiter"
           other == IF op'.tool = "send_sms"
                    THEN "queryRateLimiter" ELSE "smsRateLimiter"
       IN /\ op'.limiter = mine
          /\ requests'[other] = requests[other]
          /\ op'.error.thrown <=>
               Cardinality(InWindow(requests[mine], now)) >= maxRequests[mine]
          /\ ~op'.error.thrown => Len(requests'[mine]) =
                                    Cardinality(InWindow(requests[mine], now)) + 1]_vars

\* a query tool denied by the full QUERY window while SEND, which has been
\* charged, still has room
C10_Witness ==
  /\ op.name = "checkRateLimit"
  /\ op.tool = "check_account_balance"
  /\ op.error.thrown
  /\ maxRequests["queryRateLimiter"] = 1
  /\ Len(requests["queryRateLimiter"]) = 1
  /\ Len(requests["smsRateLimiter"]) = 1
  /\ maxRequests["smsRateLimiter"] = 2

----------------------------------------------------------------------------
(* Properties of the dispatcher *)

\* C5: with a SEND limit of at least one, in no window of windowMs do more
\* than SEND-max send_sms calls reach the remote send-message call: the call
\* after the SEND-max-th in a window is answered with the rate-limit error
\* naming "SMS sending" instead.
C5_SendCallsLimited ==
  maxRequests["smsRateLimiter"] >= 1 =>
    \A t \in Instants :
      Cardinality({i \in DOMAIN sent : sent[i] > t - windowMs /\ sent[i] <= t})
        <= maxRequests["smsRateLimiter"]

\* C6: every tool call that has been answered has emitted exactly one audit
\* record, with success = true when the remote call succeeded and otherwise
\* success = false and the message of the error returned to the caller.
C6_OneAuditRecordPerCall ==
  cur.status = "done" =>
    /\ Len(audit) = handled
    /\ audit[handled].tool = cur.tool
    /\ audit[handled].success = ~cur.response.isError
    /\ cur.response.isError =>
         \E i \in 1..Len(cur.response.text) :
           SubSeq(cur.response.text, i, Len(cur.response.text)) = audit[handled].error

\* C7: every tool call runs the admission check of its category before any
\* validator: while the category has room the call records one timestamp,
\* also a send_sms call whose arguments then fail validation.
C7_AdmissionBeforeValidation ==
  [][handled' = handled + 1 =>
       LET mine == getRateLimiterForTool(cur'.tool)
           retained == Cardinality(InWindow(requests[mine], now))
       IN retained < maxRequests[mine] => Len(requests'[mine]) = retained + 1]_vars

\* C8: send_sms and estimate_sms_cost validate the phone number, then the
\* message, then the sender id when `from` is non-empty. When one rejects, no
\* remote call is made and the response is the error text
\* "Invalid <field>: <reason>" of the first rejecting validator; when none
\* rejects, the send-message request is issued.
C8_FirstRejectionStops ==
  (cur.tool \in {"send_sms", "estimate_sms_cost"} /\ cur.args.to # Undef) =>
    LET phone == validatePhoneNumber(cur.args.to)
        message == validateSmsMessage(cur.args.message)
        sender == validateSenderId(cur.args.from)
        firstRejection ==
          IF ~phone.isValid THEN <<"phone number", phone.error>>
          ELSE IF ~message.isValid THEN <<"message", message.error>>
          ELSE IF cur.args.from # Undef /\ cur.args.from # <<>> /\ ~sender.isValid
          THEN <<"sender ID", sender.error>>
          ELSE <<>>
    IN IF firstRejection # <<>>
       THEN /\ cur.status = "done"
            /\ cur.request = NoRequest
            /\ cur.response.isError
            /\ cur.response.text =
                 <<"Error (", "VALIDATION_ERROR", "): ", "Invalid ",
                   firstRejection[1], ": ">> \o firstRejection[2]
       ELSE cur.request.endpoint = "POST /sms"

\* an estimate whose three fields are all invalid is answered with the phone
\* number's rejection
C8_Witness ==
  /\ cur.tool = "estimate_sms_cost"
  /\ cur.args.to = PhoneNoCountryCode
  /\ cur.args.message = <<>>
  /\ cur.args.from = <<"B", "a", "n", "k">>
  /\ cur.status = "done"
  /\ cur.response.text[5] = "phone number"

\* C9: every message_id that check_sms_status puts into the path of the
\* get-message-by-id request has 1 to 64 characters, all in [A-Za-z0-9_-].
C9_MessageIdSafeInPath ==
  cur.request.endpoint = "GET /sms/{id}" =>
    /\ Len(cur.request.id) >= 1
    /\ Len(cur.request.id) <= 64
    /\ \A i \in 1..Len(cur.request.id) :
         cur.request.id[i] \in Letters \cup Digits \cup {"_", "-"}

----------------------------------------------------------------------------
(* Properties of checkRateLimit's error *)

\* C11: when checkRateLimit(tool) is denied while the limiter retains at least
\* one timestamp, the RateLimitError names "SMS sending" for send_sms and
\* "query" for every other tool, and its retryAfterSec is the least whole
\* number of seconds not below retryAfterMs, a value from 1 to 60.
C11_RetryAfterSeconds ==
  (op.name = "checkRateLimit" /\ op.error.thrown /\ Len(requests[op.limiter]) >= 1) =>
    /\ op.error.limitType = (IF op.tool = "send_sms" THEN "SMS sending" ELSE "query")
    /\ op.error.message[2] = op.error.limitType
    /\ op.error.retryAfterSec \in 1..(windowMs \div 1000)
    /\ op.error.retryAfterSec * 1000 >= op.result.retryAfterMs
    /\ (op.error.retryAfterSec - 1) * 1000 < op.result.retryAfterMs
    /\ op.error.message[5] = ToString(op.error.retryAfterSec)

\* send_sms denied one millisecond before the oldest admission expires: the
\* wait of 1 ms is reported as 1 second
C11_Witness ==
  /\ op.name = "checkRateLimit" /\ op.tool = "send_sms"
  /\ op.error.thrown
  /\ Len(requests["smsRateLimiter"]) >= 1
  /\ op.result.retryAfterMs = 1
  /\ op.error.retryAfterSec = 1
  /\ op.error.limitType = "SMS sending"

\* C12: when checkRateLimit is denied while the limiter retains no timestamp
\* (maxRequests = 0), the wait it reports is 60 seconds.
C12_EmptyDenialWaits60 ==
  (op.name = "checkRateLimit" /\ op.error.thrown /\ requests[op.limiter] = <<>>) =>
    /\ op.error.retryAfterSec = 60
    /\ op.error.message[5] = "60"

----------------------------------------------------------------------------
(* Audit logger, src/unnamed/part_003 *)

\* JavaScript values of the parameters: a type tag with the string or number
StringValue(str) == [type |-> "string", str |-> str, num |-> 0]

NumberValue(n) == [type |-> "number", str |-> <<>>, num |-> n]

BooleanValue(b) == [type |-> "boolean", str |-> <<>>, num |-> IF b THEN 1 ELSE 0]

UndefinedValue == [type |-> "undefined", str |-> <<>>, num |-> 0]

NullValue == [type |-> "null", str |-> <<>>, num |-> 0]

\* the fixed token of a fully masked value
Stars == <<"*", "*", "*", "*">>

\* maskPhoneNumber masking completely below 9 characters instead of below 8
maskPhoneNumber_minNine(phone) ==
  IF phone = <<>> \/ Len(phone) < 9 THEN Stars
  ELSE SubSeq(phone, 1, 4) \o Stars \o SubSeq(phone, Len(phone) - 2, Len(phone))

\* maskPhoneNumber(phone)
maskPhoneNumber(phone) ==
  IF phone = <<>> \/ Len(phone) < 8 THEN Stars
  ELSE SubSeq(phone, 1, 4) \o Stars \o SubSeq(phone, Len(phone) - 2, Len(phone))

\* sanitizeParams adding message_length and keeping the message
sanitizeParams_keepsMessage(params) ==
  LET present == {key \in DOMAIN params : params[key].type \notin {"undefined", "null"}}
      keys == present \cup (IF "message" \in present THEN {"message_length"} ELSE {})
  IN [key \in keys |->
        IF key = "message_length"
        THEN NumberValue(IF params["message"].type = "string"
                         THEN Len(params["message"].str) ELSE 0)
        ELSE IF key \in {"to", "from"}
        THEN StringValue(IF params[key].type = "string"
                         THEN maskPhoneNumber(params[key].str) ELSE Stars)
        ELSE params[key]]

\* sanitizeParams(params); a key that is absent from params has the value undefined
sanitizeParams(params) ==
  LET present == {key \in DOMAIN params : params[key].type \notin {"undefined", "null"}}
      keys == (present \ {"message"})
                \cup (IF "message" \in present THEN {"message_length"} ELSE {})
  IN [key \in keys |->
        IF key = "message_length"
        THEN NumberValue(IF params["message"].type = "string"
                         THEN Len(params["message"].str) ELSE 0)
        ELSE IF key \in {"to", "from"}
        THEN StringValue(IF params[key].type = "string"
                         THEN maskPhoneNumber(params[key].str) ELSE Stars)
        ELSE params[key]]

\* the entry passed to auditLog; error and durationMs are optional
AuditEntry(tool, params, success, error, isDryRun, durationMs) ==
  [tool |-> tool, params |-> params, success |-> success, error |-> error,
   dryRun |-> isDryRun, durationMs |-> durationMs]

\* auditLog(entry) at time t: the auditEntry it writes as JSON
auditLog(entry, t) ==
  LET all == [timestamp |-> t, tool |-> entry.tool,
              params |-> sanitizeParams(entry.params),
              success |-> entry.success, dryRun |-> entry.dryRun,
              error |-> entry.error.str, durationMs |-> entry.durationMs.num]
      keys == {"timestamp", "tool", "params", "success", "dryRun"}
                \cup (IF entry.error.type = "string" /\ entry.error.str # <<>>
                      THEN {"error"} ELSE {})
                \cup (IF entry.durationMs.type # "undefined"
                      THEN {"durationMs"} ELSE {})
  IN [key \in keys |-> all[key]]

\* parameter bags passed to the audit logger
Params(to, from, message, message_id, limit) ==
  [to |-> to, from |-> from, message |-> message, message_id |-> message_id,
   limit |-> limit]

PhoneA == <<"+", "4", "6", "7", "0", "1", "2", "3", "4", "5", "6", "7">>

PhoneB == <<"+", "4", "6", "7", "0", "9", "9", "9", "4", "5", "6", "7">>

PhoneC == <<"+", "4", "6", "7", "0", "9", "8", "7", "6", "5", "4", "3">>

Boom == <<"b", "o", "o", "m">>

SendParams ==
  Params(StringValue(PhoneA), StringValue(PhoneC), StringValue(<<"a", "b", "c">>),
         UndefinedValue, UndefinedValue)

ParamSamples ==
  { SendParams,
    [SendParams EXCEPT !.message = StringValue(<<"x", "y", "z">>)],
    Params(StringValue(PhoneB), StringValue(<<"+", "1", "2", "3", "4", "5">>),
           StringValue(<<"a", "b", "c", "d">>), UndefinedValue, UndefinedValue),
    Params(StringValue(<<>>), NumberValue(5), NumberValue(7),
           UndefinedValue, UndefinedValue),
    Params(NullValue, UndefinedValue, UndefinedValue,
           StringValue(<<"s", "0">>), NumberValue(5)),
    Params(StringValue(<<"1", "2", "3", "4", "5", "6", "7", "8">>),
           StringValue(<<"1", "2", "3", "4", "5", "6", "7">>),
           StringValue(<<>>), UndefinedValue, UndefinedValue) }

\* the entries auditLog is called with directly
EntrySamples ==
  {AuditEntry("send_sms", params, TRUE, UndefinedValue, dryRun, UndefinedValue) :
     params \in ParamSamples}
  \cup
  {AuditEntry("send_sms", SendParams, outcome[1], outcome[2], dryRun, outcome[3]) :
     outcome \in { <<TRUE, StringValue(Boom), UndefinedValue>>,
                   <<FALSE, StringValue(Boom), UndefinedValue>>,
                   <<FALSE, StringValue(<<>>), UndefinedValue>>,
                   <<FALSE, UndefinedValue, NumberValue(0)>> }}

\* the start times of the audit contexts that end at time t
ContextStarts(t) == {startTime \in Instants : startTime <= t /\ t - startTime <= 1000}

\* auditLog(entry) writes one record
Emit(entry) ==
  /\ Len(audit) < MaxAudit
  /\ audit' = Append(audit, auditLog(entry, now))
  /\ auditIn' = Append(auditIn, entry)
  /\ UNCHANGED <<now, limiterVars, dryRun, cur, handled, sent, startup, val, inflight>>

\* auditLog(entry) called directly
AuditLog(entry) == Emit(entry)

\* success() of the context createAuditContext(tool, params, dryRun) returned at startTime
ContextSuccess(tool, params, startTime) ==
  Emit(AuditEntry(tool, params, TRUE, UndefinedValue, dryRun,
                  NumberValue(now - startTime)))

\* failure(error) of the context createAuditContext(tool, params, dryRun) returned at startTime
ContextFailure(tool, params, startTime, error) ==
  Emit(AuditEntry(tool, params, FALSE, StringValue(error), dryRun,
                  NumberValue(now - startTime)))

\* the audit logger under both settings of DRY_RUN; it reads neither limiter
InitAudit ==
  /\ InitLimiters
  /\ InitDispatcher
  /\ maxRequests = [l \in Limiters |-> MaxRequests]
  /\ dryRun \in BOOLEAN

NextAudit ==
  \/ Tick
  \/ \E entry \in EntrySamples : AuditLog(entry)
  \/ \E startTime \in ContextStarts(now) : ContextSuccess("send_sms", SendParams, startTime)
  \/ \E startTime \in ContextStarts(now) : \E error \in {Boom, <<>>} :
       ContextFailure("send_sms", SendParams, startTime, error)

SpecAudit == InitAudit /\ [][NextAudit]_vars

----------------------------------------------------------------------------
(* Properties of the audit logger *)

\* C13: no record auditLog writes has a `message` key; a string `message`
\* parameter is replaced by `message_length`, its length; and two calls whose
\* entries differ only in message bodies of equal length write records that
\* are the same apart from the timestamp.
C13_MessageOnlyAsLength ==
  /\ \A i \in DOMAIN audit :
       /\ "message" \notin DOMAIN audit[i]
       /\ "message" \notin DOMAIN audit[i].params
       /\ auditIn[i].params.message.type = "string" =>
            /\ "message_length" \in DOMAIN audit[i].params
            /\ audit[i].params.message_length =
                 NumberValue(Len(auditIn[i].params.message.str))
  /\ \A i, j \in DOMAIN audit :
       ( /\ auditIn[i].params.message.type = "string"
         /\ auditIn[j].params.message.type = "string"
         /\ Len(auditIn[i].params.message.str) = Len(auditIn[j].params.message.str)
         /\ [auditIn[i] EXCEPT !.params.message = auditIn[j].params.message] = auditIn[j] )
       => [audit[i] EXCEPT !.timestamp = 0] = [audit[j] EXCEPT !.timestamp = 0]

\* two calls at different times whose messages differ and have the same length
C13_Witness ==
  \E i, j \in DOMAIN audit :
    /\ auditIn[i].params.message.str # auditIn[j].params.message.str
    /\ Len(auditIn[i].params.message.str) = 3
    /\ [auditIn[i] EXCEPT !.params.message = auditIn[j].params.message] = auditIn[j]
    /\ audit[i].timestamp # audit[j].timestamp
    /\ audit[i].params = audit[j].params
    /\ audit[i].params.message_length.num = 3

\* C14: a `to` or `from` parameter that is undefined or null is left out; any
\* other value is written as a string: the first 4 characters, "****" and the
\* last 3 characters of a string of 8 or more characters, and exactly "****"
\* for a shorter string, the empty string or a value that is not a string. The
\* written value is the same for strings that agree on those 7 characters.
C14_PhoneMasked ==
  /\ \A i \in DOMAIN audit : \A key \in {"to", "from"} :
       LET raw == auditIn[i].params[key]
       IN IF raw.type \in {"undefined", "null"}
          THEN key \notin DOMAIN audit[i].params
          ELSE /\ key \in DOMAIN audit[i].params
               /\ audit[i].params[key].type = "string"
               /\ IF raw.type = "string" /\ Len(raw.str) >= 8
                  THEN LET out == audit[i].params[key].str
                       IN /\ Len(out) = 11
                          /\ \A n \in 1..4 : out[n] = raw.str[n]
                          /\ \A n \in 5..8 : out[n] = "*"
                          /\ \A n \in 1..3 : out[8 + n] = raw.str[Len(raw.str) - 3 + n]
                  ELSE audit[i].params[key].str = <<"*", "*", "*", "*">>
  /\ \A i, j \in DOMAIN audit :
       LET a == auditIn[i].params.to.str
           b == auditIn[j].params.to.str
       IN ( /\ Len(a) >= 8 /\ Len(b) >= 8
            /\ SubSeq(a, 1, 4) = SubSeq(b, 1, 4)
            /\ SubSeq(a, Len(a) - 2, Len(a)) = SubSeq(b, Len(b) - 2, Len(b)) )
          => audit[i].params.to = audit[j].params.to

\* a string of exactly 8 characters and one of 7, and two numbers that differ
\* only in the masked middle
C14_Witness ==
  \E i, j \in DOMAIN audit :
    /\ Len(auditIn[i].params.to.str) = 8 /\ Len(auditIn[i].params.from.str) = 7
    /\ audit[i].params.to.str = <<"1", "2", "3", "4", "*", "*", "*", "*", "6", "7", "8">>
    /\ audit[i].params.from.str = <<"*", "*", "*", "*">>
    /\ auditIn[j].params.to.str = PhoneA
    /\ audit[j].params.to.str = <<"+", "4", "6", "7", "*", "*", "*", "*", "5", "6", "7">>

----------------------------------------------------------------------------
(* Properties of the requests sent *)

\* C16: estimate_sms_cost never performs a real send: whatever its arguments
\* and whatever config.dryRun is, the only request it issues is the
\* send-message request and that request carries dryrun=yes.
C16_EstimateIsDryRun ==
  (cur.tool = "estimate_sms_cost" /\ cur.request # NoRequest) =>
    /\ cur.request.endpoint = "POST /sms"
    /\ cur.request.dryrun

\* an estimate sent while DRY_RUN is off and with dry_run: false among its arguments
C16_Witness ==
  /\ cur.tool = "estimate_sms_cost"
  /\ ~dryRun
  /\ cur.args.dry_run = "false"
  /\ cur.request.endpoint = "POST /sms"
  /\ cur.request.dryrun
  /\ cur.status = "done"

\* C18: no message body that send_sms or estimate_sms_cost passes to the
\* send-message request contains an ASCII control character other than tab,
\* newline and carriage return.
C18_NoControlCharacterSent ==
  (cur.tool \in {"send_sms", "estimate_sms_cost"} /\ cur.request.endpoint = "POST /sms") =>
    \A i \in 1..Len(cur.request.message) :
      cur.request.message[i] \notin StrippedControl

----------------------------------------------------------------------------
(* The server from the start of main() *)

\* validateConfig(); when it throws, main() reports and calls process.exit(1)
ValidateConfig ==
  /\ startup.phase = "main"
  /\ startup' = [startup EXCEPT !.phase =
                   IF validateConfig(startup.config).kind # "none"
                   THEN "exited" ELSE "config validated"]
  /\ UNCHANGED <<now, limiterVars, dryRun, cur, handled, sent, audit, auditIn, val, inflight>>

\* await elksClient.testConnection() inside its own try/catch
TestConnection(ok) ==
  /\ startup.phase = "config validated"
  /\ startup' = [startup EXCEPT !.phase = "connection tested", !.connectionOk = ok]
  /\ UNCHANGED <<now, limiterVars, dryRun, cur, handled, sent, audit, auditIn, val, inflight>>

\* await server.connect(transport)
Connect ==
  /\ startup.phase = "connection tested"
  /\ startup' = [startup EXCEPT !.phase = "connected"]
  /\ UNCHANGED <<now, limiterVars, dryRun, cur, handled, sent, audit, auditIn, val, inflight>>

InitStartup ==
  /\ InitLimiters
  /\ cur = NoCall /\ handled = 0 /\ sent = <<>> /\ audit = <<>> /\ auditIn = <<>>
  /\ val = NoValidation
  /\ inflight = [i \in 1..MaxInFlight |-> "none"]
  /\ maxRequests = [l \in Limiters |-> MaxRequests]
  /\ dryRun \in BOOLEAN
  /\ \E cfg \in ConfigSamples : startup = Starting(cfg)

NextStartup ==
  \/ ValidateConfig
  \/ \E ok \in BOOLEAN : TestConnection(ok)
  \/ Connect
  \/ NextDispatch

SpecStartup == InitStartup /\ [][NextStartup]_vars

\* C17: the transport is connected, and tool calls are handled, only after
\* validateConfig() and the credential check against the remote API have both
\* succeeded; when the credential check fails the server does not start.
C17_StartsOnlyWithCredentials ==
  (startup.phase = "connected" \/ handled > 0) =>
    /\ validateConfig(startup.config).kind = "none"
    /\ startup.connectionOk

----------------------------------------------------------------------------
(* The validators called on their own, src/src/validation.ts *)

\* all strings over alphabet of at most n characters
StringsUpTo(alphabet, n) == UNION {[1..k -> alphabet] : k \in 0..n}

PhoneInputs ==
  StringsUpTo({"+", "4", "a", " ", "-"}, MaxLen)
  \cup { PhoneOk, PhoneNoCountryCode, <<" ">> \o PhoneOk,
         <<"(", "+", "4", "6", ")", "7", "0", "1", "2", "3", "4", "5", "6", "8">>,
         <<"+", "4", "6", "7", "0", "1", "2", "3", "4", "5", "6", "7">> }

\* a string of n characters c
Repeat(c, n) == [i \in 1..n |-> c]

\* message lengths on both sides of each limit of validateSmsMessage
LengthSamples == {67, 70, 71, 134, 135, 153, 160, 161, 306, 307, 670, 671, 1530, 1531}

MessageInputs ==
  {Undef} \cup StringsUpTo({"a", " ", "\n", "<BEL>", "<ESC>"}, MaxLen)
  \cup {Repeat(c, n) : c \in {"a", "!"}, n \in LengthSamples}
  \cup {<<" ", "<BEL>">> \o Repeat("a", 160) \o <<"<BEL>", "\n">>}

SenderIdInputs ==
  {Undef} \cup StringsUpTo({"A", "b", "1", " ", "+"}, MaxLen)
  \cup { <<"B", "a", "n", "k">>, PhoneOk }
  \cup UNION { { s, toLowerCaseString(s), <<s[1]>> \o toLowerCaseString(Tail(s)),
                 <<"x">> \o s, toLowerCaseString(s) \o <<"9">>,
                 <<"1">> \o s, <<"m", "y">> \o s \o <<"s">>,
                 SubSeq(s, 1, 2) \o <<" ">> \o SubSeq(s, 3, Len(s)) }
              : s \in suspiciousSenders }

\* integers on both sides of 1 and of 100, and values that are not integers
LimitInputs ==
  {IntegerNumber(n) : n \in {-1, 0, 1, 2, 10, 99, 100, 101, 500}}
  \cup {<<"fraction", 1>>, <<"fraction", 100>>, <<"NaN">>, <<"Infinity">>, <<"string">>, Undef}

DirectionInputs ==
  validDirections \cup {"", "Inbound", "BOTH", "sideways", "incoming", "outgoing", "<undefined>"}

MessageIdInputs ==
  {Undef} \cup StringsUpTo({"a", "_", " ", "\n", "/"}, MaxLen)
  \cup { Repeat("a", 64), Repeat("a", 65), <<" ">> \o Repeat("a", 64) \o <<"\t">>,
         <<"Z", "-", "0">>, <<"a", "?", "b">>,
         <<"s", "0", "1", "2", "3", "4", "5", "6", "7", "8", "9", "a", "b", "c", "d", "e", "f">> }

\* one call of a validator
Validate(validator, input, outcome) ==
  /\ val' = [validator |-> validator, input |-> input, outcome |-> outcome]
  /\ UNCHANGED <<now, limiterVars, dryRun, cur, handled, sent, audit, auditIn, startup, inflight>>

ValidatePhoneNumber(phoneNumber) ==
  Validate("validatePhoneNumber", phoneNumber, validatePhoneNumber(phoneNumber))

ValidateSmsMessage(message) ==
  Validate("validateSmsMessage", message, validateSmsMessage(message))

ValidateSenderId(senderId) ==
  Validate("validateSenderId", senderId, validateSenderId(senderId))

ValidateMessageLimit(limit) ==
  Validate("validateMessageLimit", limit, validateMessageLimit(limit))

ValidateDirection(direction) ==
  Validate("validateDirection", direction, validateDirection(direction))

ValidateMessageId(messageId) ==
  Validate("validateMessageId", messageId, validateMessageId(messageId))

\* the validators read no state
InitValidate ==
  /\ InitLimiters
  /\ InitDispatcher
  /\ maxRequests = [l \in Limiters |-> MaxRequests]
  /\ dryRun = FALSE

NextValidate ==
  \/ \E phoneNumber \in PhoneInputs : ValidatePhoneNumber(phoneNumber)
  \/ \E message \in MessageInputs : ValidateSmsMessage(message)
  \/ \E senderId \in SenderIdInputs : ValidateSenderId(senderId)
  \/ \E limit \in LimitInputs : ValidateMessageLimit(limit)
  \/ \E direction \in DirectionInputs : ValidateDirection(direction)
  \/ \E messageId \in MessageIdInputs : ValidateMessageId(messageId)

SpecValidate == InitValidate /\ [][NextValidate]_vars

----------------------------------------------------------------------------
(* Properties of the validators *)

CountryCodeError ==
  <<"Phone number must include country code (e.g., +46XXXXXXXXX)">>

\* C19 as stated: every input string that does not start with '+' is rejected
\* with the error about the missing country code.
C19_Original ==
  (val.validator = "validatePhoneNumber" /\ ~startsWith(val.input, <<"+">>)) =>
    /\ ~val.outcome.isValid
    /\ val.outcome.error = CountryCodeError

\* C19 amended: with white space, '-', '(', ')' and '.' removed from the input
\* first, an input of which something remains that does not start with '+' is
\* rejected with the error about the missing country code, and an input of
\* which nothing remains is rejected with 'Phone number is required'.
C19_NoPlusAfterCleaning ==
  val.validator = "validatePhoneNumber" =>
    LET kept == SelectSeq(val.input,
                          LAMBDA c : c \notin WhiteSpace \cup {"-", "(", ")", "."})
    IN /\ kept = <<>> =>
            /\ ~val.outcome.isValid
            /\ val.outcome.error = <<"Phone number is required">>
       /\ (kept # <<>> /\ kept[1] # "+") =>
            /\ ~val.outcome.isValid
            /\ val.outcome.error = CountryCodeError

\* digits with a separator between them and no '+'
C19_Witness ==
  /\ val.validator = "validatePhoneNumber"
  /\ val.input = <<"4", "-", "4">>
  /\ ~val.outcome.isValid
  /\ val.outcome.error = CountryCodeError

\* C20: validateSmsMessage rejects, with 'Message content is required', every
\* message that is empty or only white space once its control characters
\* other than tab, newline and carriage return have been stripped.
C20_EmptyAfterStripping ==
  ( /\ val.validator = "validateSmsMessage"
    /\ val.input # Undef
    /\ \A i \in 1..Len(val.input) : val.input[i] \in WhiteSpace \cup StrippedControl )
  => /\ ~val.outcome.isValid
     /\ val.outcome.error = <<"Message content is required">>

\* C21: for every message validateSmsMessage accepts, the segment count in
\* its info is 1 when the sanitized length is at most 160 (GSM) or 70
\* (Unicode), and otherwise the least n with length <= n * 153 (GSM) or
\* n * 67 (Unicode); it is between 1 and 10; and every message whose sanitized
\* length exceeds 1530 (GSM) or 670 (Unicode) is rejected.
C21_SegmentCount ==
  ( /\ val.validator = "validateSmsMessage"
    /\ val.input # Undef
    /\ trim(val.input) # <<>> ) =>
    LET text == stripControlCharacters(trim(val.input))
        simple == isGsm(text)
        single == IF simple THEN 160 ELSE 70
        perSegment == IF simple THEN 153 ELSE 67
        cap == IF simple THEN 1530 ELSE 670
    IN IF Len(text) > cap
       THEN ~val.outcome.isValid
       ELSE /\ val.outcome.isValid
            /\ \E n \in 1..10 :
                 /\ IF Len(text) <= single THEN n = 1
                    ELSE (n - 1) * perSegment < Len(text) /\ Len(text) <= n * perSegment
                 /\ val.outcome.info[1] =
                      (IF n = 1 /\ Len(text) <= single
                       THEN "1 SMS segment (" ELSE ToString(n))

\* a Unicode message of 671 characters rejected, or one of 670 in 10 segments
C21_Witness ==
  /\ val.validator = "validateSmsMessage"
  /\ Len(val.input) = 670
  /\ val.input[1] = "!"
  /\ val.outcome.isValid
  /\ val.outcome.info[1] = "10"

\* C22: validateMessageId accepts only strings of 1 to 64 characters, all in
\* [A-Za-z0-9_-]; a string with any other character anywhere in it, white
\* space included, is rejected.
C22_MessageIdCharacters ==
  (val.validator = "validateMessageId" /\ val.outcome.isValid) =>
    /\ val.input # Undef
    /\ Len(val.input) >= 1
    /\ Len(val.input) <= 64
    /\ \A i \in 1..Len(val.input) :
         val.input[i] \in Letters \cup Digits \cup {"_", "-"}

\* C23: a get_sms_messages call whose limit validateMessageLimit rejects or
\* whose direction validateDirection rejects ends with an error response and
\* sends no list-messages request; and with direction 'both' and a valid limit
\* the request is sent without a direction filter.
C23_ListValidatedFailFast ==
  cur.tool = "get_sms_messages" =>
    LET limit == IF cur.args.limit = Undefined THEN 10 ELSE cur.args.limit
        rejected ==
          \/ ~validateMessageLimit(IntegerNumber(limit)).isValid
          \/ /\ cur.args.direction # "<undefined>"
             /\ ~validateDirection(cur.args.direction).isValid
    IN /\ rejected =>
            /\ cur.status = "done"
            /\ cur.response.isError
            /\ cur.request = NoRequest
       /\ (~rejected /\ cur.args.direction = "both") =>
            /\ cur.request.endpoint = "GET /sms"
            /\ cur.request.direction = ""

\* whether str is alphanumeric, of at most 11 characters, starts with a letter
\* and holds one of the tokens of suspiciousSenders in any letter case
Impersonating(str) ==
  /\ str # Undef
  /\ Len(str) >= 1
  /\ Len(str) <= 11
  /\ str[1] \in Letters
  /\ \A i \in 1..Len(str) : str[i] \in Letters \cup Digits
  /\ \E token \in suspiciousSenders :
       \E i \in 1..Len(str) :
         /\ i + Len(token) - 1 <= Len(str)
         /\ \A k \in 1..Len(token) :
              str[i + k - 1] \in {token[k], toLowerCase(token[k])}

ImpersonationError ==
  <<"Sender ID appears to impersonate official entities - use your own business/service name">>

\* C24: validateSenderId rejects every such sender id with the impersonation
\* error, and send_sms called with it as `from`, whatever the other arguments
\* and the configuration, throws and sends no request.
C24_ImpersonationRejected ==
  (val.validator = "validateSenderId" /\ Impersonating(val.input)) =>
    /\ ~val.outcome.isValid
    /\ val.outcome.error = ImpersonationError
    /\ \A to \in ToSamples, message \in MessageSamples \cup {<<"H", "i">>},
          cfgDryRun \in BOOLEAN :
         LET h == handleToolCall("send_sms",
                                 [NoArgs EXCEPT !.to = to, !.message = message,
                                                !.from = val.input],
                                 cfgDryRun)
         IN /\ h.thrown.kind # "none"
            /\ h.request = NoRequest
            /\ (to = PhoneOk /\ message = <<"H", "i">>) =>
                 h.thrown = ValidationError(<<"Invalid ", "sender ID", ": ">>
                                            \o ImpersonationError)

\* a token in lower case inside a longer sender id
C24_Witness ==
  /\ val.validator = "validateSenderId"
  /\ val.input = <<"m", "y", "A", "L", "E", "R", "T", "s">>
  /\ val.outcome.error = ImpersonationError

\* C25: the outcome of every validator has a non-empty error exactly when
\* isValid is false, so that handleValidationError throws for it exactly then;
\* and send_sms given an accepted phone number, message or sender id, with or
\* without a warning or info, and otherwise valid arguments, throws nothing
\* and sends its request.
C25_ErrorIffRejected ==
  val.validator # "" =>
    /\ val.outcome.isValid <=> val.outcome.error = <<>>
    /\ ~val.outcome.isValid <=>
         handleValidationError("input", val.outcome).kind # "none"
    /\ ( /\ val.outcome.isValid
         /\ val.validator \in {"validatePhoneNumber", "validateSmsMessage",
                                "validateSenderId"} ) =>
         \A cfgDryRun \in BOOLEAN :
           LET valid == [NoArgs EXCEPT !.to = PhoneOk, !.message = <<"H", "i">>]
               args ==
                 IF val.validator = "validatePhoneNumber"
                 THEN [valid EXCEPT !.to = val.input]
                 ELSE IF val.validator = "validateSmsMessage"
                 THEN [valid EXCEPT !.message = val.input]
                 ELSE [valid EXCEPT !.from = val.input]
               h == handleToolCall("send_sms", args, cfgDryRun)
           IN /\ h.thrown = NoThrow
              /\ h.request.endpoint = "POST /sms"

\* an accepted message of three segments, which carries a cost warning
C25_Witness ==
  /\ val.validator = "validateSmsMessage"
  /\ Len(val.input) = 307
  /\ val.outcome.isValid
  /\ val.outcome.warning # <<>>
  /\ val.outcome.info # <<>>

\* the text of an error response that carries the message of error
ErrorTexts(error) ==
  { <<"Error: ">> \o error.message }
  \cup { <<"Error (", code, "): ">> \o error.message :
           code \in {"VALIDATION_ERROR", "ELKS_API_ERROR", "CONFIGURATION_ERROR",
                     "RATE_LIMIT_EXCEEDED"} }

\* C26: every invocation of the handler ends with one response, which no later
\* step changes: at once when a statement before the remote call throws
\* (unknown tool, missing argument, rejected validation), else when the
\* remote call returns; the response of a failure is one text that begins
\* with "Error" and carries the message of what was thrown, the response of
\* a success is the text of the tool.
C26_OneResponseCarryingError ==
  [][ /\ handled' = handled + 1 =>
           LET thrown == Handled[<<cur'.tool, cur'.args, dryRun>>].thrown
           IN IF thrown.kind # "none"
              THEN /\ cur'.status = "done"
                   /\ cur'.request = NoRequest
                   /\ cur'.response.isError
                   /\ cur'.response.text \in ErrorTexts(thrown)
              ELSE /\ cur'.status = "pending"
                   /\ cur'.response = NoResponse
      /\ (handled' = handled /\ cur' # cur) =>
           /\ cur.status = "pending"
           /\ cur'.status = "done"
           /\ \/ /\ cur'.response.isError
                 /\ cur'.response.text \in ErrorTexts(remoteError(cur.request))
              \/ /\ ~cur'.response.isError
                 /\ cur'.response.text =
                      successText(cur.tool, cur.isDryRunMode, cur.warning)
                 /\ cur'.response.text # <<>>
    ]_vars

\* the error of an unknown tool name has been returned
C26_Witness ==
  /\ cur.tool = "unknown_tool"
  /\ cur.status = "done"
  /\ cur.response.isError
  /\ cur.response.text = <<"Error: ", "MCP error ", "-32601", ": ", "Unknown tool: ", "unknown_tool">>

\* C27: after every step each limiter retains at most maxRequests
\* timestamps, in non-decreasing order, and right after a check() at time now
\* every timestamp its limiter retains lies in (now - windowMs, now].
C27_RetainedTimestamps ==
  [][ /\ \A l \in Limiters :
           /\ Len(requests'[l]) <= maxRequests[l]
           /\ \A i, j \in DOMAIN requests'[l] :
                i < j => requests'[l][i] <= requests'[l][j]
      /\ IsCheckStep =>
           \A i \in DOMAIN requests'[op'.limiter] :
             /\ requests'[op'.limiter][i] > now - windowMs
             /\ requests'[op'.limiter][i] <= now
    ]_vars

\* a check that dropped an expired timestamp and kept a newer one before
\* recording its own
C27_Witness ==
  \E l \in Limiters :
    /\ maxRequests[l] = 2
    /\ Len(hist[l]) = 3
    /\ hist[l][3].allowed
    /\ hist[l][3].t = now
    /\ requests[l] = <<hist[l][2].t, now>>
    /\ hist[l][1].allowed /\ hist[l][1].t <= now - windowMs
    /\ hist[l][2].t < now

\* C28: on a limiter with maxRequests >= 1, a check denied at time t with
\* retryAfterMs = r is followed by an allowed check at the first check made at
\* a time >= t + r, if no check of that limiter was allowed in between; r is
\* at least 1 and at most windowMs, so the limiter does not deny a check
\* made windowMs or more after its oldest retained admission; and the
\* retryAfterSec of checkRateLimit's error, in milliseconds, is not below r.
C28_AdmittedAfterRetryDelay ==
  /\ \A l \in Limiters :
       maxRequests[l] >= 1 =>
         \A i \in DOMAIN hist[l] :
           ~hist[l][i].allowed =>
             /\ hist[l][i].retryAfterMs >= 1
             /\ hist[l][i].retryAfterMs <= windowMs
             /\ \A j \in DOMAIN hist[l] :
                  ( /\ i < j
                    /\ hist[l][j].t >= hist[l][i].t + hist[l][i].retryAfterMs
                    /\ \A k \in DOMAIN hist[l] : (i < k /\ k < j) => ~hist[l][k].allowed )
                  => hist[l][j].allowed
  /\ ( /\ op.name = "checkRateLimit"
       /\ op.error.thrown
       /\ maxRequests[op.limiter] >= 1 ) =>
       /\ op.error.retryAfterSec * 1000 >= op.result.retryAfterMs
       /\ op.error.retryAfterSec * 1000 < op.result.retryAfterMs + 1000

\* a check denied at 1000 with a delay of 59000 ms, and the next check, made
\* at 60000, allowed
C28_Witness ==
  \E l \in Limiters :
    /\ maxRequests[l] = 1
    /\ Len(hist[l]) = 3
    /\ ~hist[l][2].allowed
    /\ hist[l][2].t = 1000
    /\ hist[l][2].retryAfterMs = 59000
    /\ hist[l][3].t = 60000
    /\ hist[l][3].allowed

\* C30: the request send_sms issues carries dryrun=yes exactly when its dry_run
\* argument is true or, with no dry_run argument, when config.dryRun is set;
\* and when the call has succeeded its response is labelled DRY RUN and says
\* that no SMS was sent exactly when that request carried dryrun=yes.
C30_ReportedModeIsSentMode ==
  (cur.tool = "send_sms" /\ cur.request.endpoint = "POST /sms") =>
    LET effective == IF cur.args.dry_run # "<undefined>"
                     THEN cur.args.dry_run = "true" ELSE dryRun
    IN /\ cur.request.dryrun = effective
       /\ (cur.status = "done" /\ ~cur.response.isError) =>
            /\ cur.response.text[1] = (IF cur.request.dryrun THEN "DRY RUN" ELSE "SENT")
            /\ cur.request.dryrun <=>
                 \E i \in DOMAIN cur.response.text :
                   cur.response.text[i] = "This was a test - no actual SMS was sent"

\* a real send asked for with dry_run: false while DRY_RUN is on
C30_Witness ==
  /\ cur.tool = "send_sms"
  /\ dryRun
  /\ cur.args.dry_run = "false"
  /\ cur.request.endpoint = "POST /sms"
  /\ ~cur.request.dryrun
  /\ cur.status = "done"
  /\ cur.response.text[1] = "SENT"

\* C29: with invocations of the handler in flight, every step that changes a
\* limiter is one whole check(): its list becomes the pruned list, with now
\* appended when the check is allowed, in that single step; a step in which
\* an invocation starts, is suspended or resumes changes no limiter; and
\* after every step each limiter holds at most maxRequests timestamps and
\* has admitted at most maxRequests checks in any window of windowMs.
C29_CheckAtomicUnderInterleaving ==
  [][ /\ inflight' # inflight => (requests' = requests /\ hist' = hist)
      /\ (requests' # requests \/ hist' # hist) =>
           /\ IsCheckStep
           /\ inflight' = inflight
           /\ LET l == op'.limiter
                  kept == SelectSeq(requests[l], LAMBDA ts : ts > now - windowMs)
              IN /\ requests'[l] = IF op'.result.allowed THEN Append(kept, now) ELSE kept
                 /\ op'.result.allowed <=> Len(kept) < maxRequests[l]
                 /\ \A other \in Limiters \ {l} : requests'[other] = requests[other]
      /\ \A l \in Limiters :
           /\ Len(requests'[l]) <= maxRequests[l]
           /\ \A t \in Instants :
                Cardinality({i \in DOMAIN hist'[l] :
                               /\ hist'[l][i].allowed
                               /\ hist'[l][i].t > t - windowMs
                               /\ hist'[l][i].t <= t}) <= maxRequests[l]
    ]_vars

\* two invocations suspended at their remote calls while a limiter that has
\* admitted maxRequests checks in the window has denied the next one
C29_Witness ==
  /\ \A i \in 1..MaxInFlight : inflight[i] # "none"
  /\ \E l \in Limiters :
       /\ maxRequests[l] = 2
       /\ Len(requests[l]) = 2
       /\ Len(hist[l]) = 3
       /\ ~hist[l][3].allowed
       /\ hist[l][3].t < hist[l][1].t + windowMs

====
